---- MODULE Spec2Model ----
(***************************************************************************)
(* The relevance-annotation pipeline of ltr/: the sqlite store (db.py),    *)
(* the pairwise Elo tournament script (auto_annotate.py) and the leechy    *)
(* script (leechy_annotate.py).                                            *)
(***************************************************************************)
EXTENDS Integers, Sequences, FiniteSets, TLC

(* ---------------------------------------------------------------------- *)
(* Program constants                                                       *)
(* ---------------------------------------------------------------------- *)
ELO_K == 32
ELO_SCALE == 400
ELO_ROUNDS_MULT == 5
NUM_LABELS == 4

(* ---------------------------------------------------------------------- *)
(* Bounds of the model                                                     *)
(* ---------------------------------------------------------------------- *)
\* pipeline invocations in one behaviour
MaxRuns == 2
\* rating units per Elo point below 128 points (the float model's finest grid)
UNIT == 1
\* fixed-point scale of the probabilities
FP == 10000

\* the urls and titles the search collaborator returns in the pipeline runs
Urls == {1, 2}
Titles == {"t1"}

\* SQL NULL of the annotation column; a set label is {n}
NULL == {}

Abs(x) == IF x < 0 THEN -x ELSE x
Range(seq) == {seq[i] : i \in 1 .. Len(seq)}

(* ---------------------------------------------------------------------- *)
(* Floating point, scaled down: a rating is an integer number of 1/UNIT    *)
(* points; like a binary float, a stored value keeps a fixed number of     *)
(* significant bits, so its grid doubles with each binade above 256.       *)
(* ---------------------------------------------------------------------- *)
RECURSIVE GridOf(_, _, _)
GridOf(a, lim, g) == IF a < lim THEN g ELSE GridOf(a, 2 * lim, 2 * g)

\* round v to a multiple of g, ties to even (the IEEE default)
RoundToGrid(v, g) ==
    LET q == v \div g
        r == v % g
    IN  IF 2 * r < g THEN q * g
        ELSE IF 2 * r > g THEN (q + 1) * g
        ELSE IF q % 2 = 0 THEN q * g ELSE (q + 1) * g

\* a + b as the float addition stores it
FAdd(a, b) == RoundToGrid(a + b, GridOf(Abs(a + b), 256 * UNIT, 1))

\* n / d rounded to nearest, symmetric in the sign of n
SymRound(n, d) ==
    IF n >= 0 THEN (2 * n + d) \div (2 * d) ELSE -((2 * (-n) + d) \div (2 * d))

\* ln 10 in FP units
LN10 == (23026 * FP) \div 10000

RECURSIVE ExpSeries(_, _, _)
\* sum of the Taylor terms of e^(y/FP), in FP units
ExpSeries(y, k, term) ==
    IF term = 0 THEN 0 ELSE term + ExpSeries(y, k + 1, (term * y) \div (k * FP))

RECURSIVE IPow10(_)
IPow10(n) == IF n = 0 THEN 1 ELSE 10 * IPow10(n - 1)

\* 10 ** (d / ELO_SCALE) in FP units, d a rating difference in rating units
Pow10(d) ==
    LET D    == ELO_SCALE * UNIT
        q    == d \div D
        r    == d % D
        y    == (r * LN10) \div D
        e    == ExpSeries(y \div 2, 1, FP)
        frac == (e * e) \div FP
    IN  IF q >= 0 THEN frac * IPow10(q) ELSE frac \div IPow10(-q)

\* 1 / (1 + 10 ** (d / ELO_SCALE)) in FP units
Expected(d) == (FP * FP) \div (FP + Pow10(d))

\* Expected, tabulated once for the differences up to two ELO_SCALE
ExpectedTable == [d \in -(2 * ELO_SCALE * UNIT) .. 2 * ELO_SCALE * UNIT |-> Expected(d)]

\* p_winner of elo_update, in FP units
PWinner(rw, rl) ==
    IF rl - rw \in DOMAIN ExpectedTable THEN ExpectedTable[rl - rw]
    ELSE Expected(rl - rw)

\* the two increments elo_update adds, in rating units
IncWinner(rw, rl) == SymRound(ELO_K * (FP - PWinner(rw, rl)) * UNIT, FP)
IncLoserBug(rw, rl) == SymRound(ELO_K * (0 - PWinner(rw, rl)) * UNIT, FP)
IncLoser(rw, rl) ==
    LET p_loser == FP - PWinner(rw, rl)
    IN  SymRound(ELO_K * (0 - p_loser) * UNIT, FP)

\* both increments computed from the ratings of the start of the tournament
elo_updateBatched(winner, loser, e) ==
    LET b == (ELO_SCALE \div 2) * UNIT
    IN  [e EXCEPT ![winner] = FAdd(e[winner], IncWinner(b, b)),
                  ![loser]  = FAdd(e[loser], IncLoser(b, b))]
elo_update(winner, loser, e) ==
    [e EXCEPT ![winner] = FAdd(e[winner], IncWinner(e[winner], e[loser])),
              ![loser]  = FAdd(e[loser], IncLoser(e[winner], e[loser]))]

RECURSIVE FloorLog2(_)
FloorLog2(n) == IF n <= 1 THEN 0 ELSE 1 + FloorLog2(n \div 2)

\* the label of sorted position i (0-indexed)
LabelOfBug(i) == FloorLog2(i + 1)
LabelOf(i) == NUM_LABELS - FloorLog2(i + 1)

(* ---------------------------------------------------------------------- *)
(* Query texts: a text is a sequence of characters                         *)
(* ---------------------------------------------------------------------- *)
AlnumChars == {"a", "b", "c"}
Whitespace == {" "}

\* the stripped lines of data/queries_us.csv
AllQueries ==
    { <<"a", "b", " ", "c">>,
      <<"a", " ", "b">>,
      <<"a", "b", "c">>,
      <<"a", " ", "!", "!", "!">>,
      <<"a", "b">>,
      [i \in 1 .. 101 |-> IF i = 2 THEN " " ELSE "a"] }

\* sum([c.isalnum() for c in query])
AlnumCount(query) == Cardinality({i \in 1 .. Len(query) : query[i] \in AlnumChars})

\* len(query.split())
WordCount(query) ==
    Cardinality({i \in 1 .. Len(query) :
                    /\ query[i] \notin Whitespace
                    /\ (i = 1 \/ query[i - 1] \in Whitespace)})

\* the filter without its test of the number of words
AcceptedOneWord(query) ==
    /\ ~(Len(query) < 3)
    /\ ~(2 * AlnumCount(query) < Len(query))
    /\ ~(Len(query) > 100)

\* the filter of the insert loop: TRUE when the query is inserted
Accepted(query) ==
    /\ ~(Len(query) < 3)
    /\ ~(2 * AlnumCount(query) < Len(query))
    /\ ~(WordCount(query) < 2)
    /\ ~(Len(query) > 100)

QIds == 1 .. Cardinality({t \in AllQueries : Accepted(t)})

(* ---------------------------------------------------------------------- *)
(* The store: the two sqlite tables                                        *)
(*   queries        rows [qid, query, rowid]; rowid is sqlite's implicit   *)
(*                  row number, one more than the largest in the table     *)
(*   search_results rows [qid, url, orig_rank, webpage_json, annotation]   *)
(* ---------------------------------------------------------------------- *)

\* the rowid sqlite gives the next row of the table
NextRowid(Q) ==
    IF Q = {} THEN 1
    ELSE 1 + (CHOOSE n \in {r.rowid : r \in Q} : \A r \in Q : r.rowid <= n)

\* INSERT OR REPLACE in the place of INSERT OR IGNORE
add_queryReplace(Q, query, qid) ==
    {r \in Q : r.query # query /\ r.qid # qid}
        \cup {[qid |-> qid, query |-> query, rowid |-> NextRowid(Q)]}

\* INSERT OR IGNORE INTO queries (query); qid is the DEFAULT HEX(RANDOMBLOB(16))
add_query(Q, query, qid) ==
    IF \E r \in Q : r.query = query \/ r.qid = qid
    THEN Q
    ELSE Q \cup {[qid |-> qid, query |-> query, rowid |-> NextRowid(Q)]}

\* a result of the search collaborator
Result(url, title) == [url |-> url, title |-> title]

\* INSERT OR REPLACE in the place of INSERT OR IGNORE
insert_resultReplace(R, qid, rank, result) ==
    {r \in R : ~(r.qid = qid /\ r.url = result.url)}
        \cup {[qid |-> qid, url |-> result.url, orig_rank |-> rank,
                webpage_json |-> result, annotation |-> NULL]}

\* INSERT OR IGNORE INTO search_results (qid, url, orig_rank, webpage_json)
insert_result(R, qid, rank, result) ==
    IF \E r \in R : r.qid = qid /\ r.url = result.url
    THEN R
    ELSE R \cup {[qid |-> qid, url |-> result.url, orig_rank |-> rank,
                  webpage_json |-> result, annotation |-> NULL]}

RECURSIVE InsertFrom(_, _, _, _)
InsertFrom(R, qid, res, i) ==
    IF i > Len(res) THEN R
    ELSE InsertFrom(insert_result(R, qid, i - 1, res[i]), qid, res, i + 1)

\* for i, result in enumerate(results): insert_result(qid, i, result)
insert_results(R, qid, res) == InsertFrom(R, qid, res, 1)

\* the queries without results or with an unlabelled result
UnannotatedQueryRowsPartial(Q, R) ==
    {q \in Q : \/ ~ \E r \in R : r.qid = q.qid
               \/ \E r \in R : r.qid = q.qid /\ r.annotation = NULL}
\* the rows of get_unannotated_queries, unordered
UnannotatedQueryRows(Q, R) ==
    {q \in Q : ~ \E r \in R : r.qid = q.qid /\ r.annotation # NULL}

\* SELECT qid, query
Selected(q) == [qid |-> q.qid, query |-> q.query]

\* ORDER BY qid
RECURSIVE OrderByQid(_)
OrderByQid(S) ==
    IF S = {} THEN <<>>
    ELSE LET m == CHOOSE x \in S : \A y \in S : x.qid <= y.qid
         IN  <<Selected(m)>> \o OrderByQid(S \ {m})

get_unannotated_queries(Q, R) == OrderByQid(UnannotatedQueryRows(Q, R))

\* all orders of the set S
RECURSIVE Perms(_)
Perms(S) ==
    IF S = {} THEN {<<>>}
    ELSE UNION {{<<x>> \o p : p \in Perms(S \ {x})} : x \in S}

\* the SELECT without AND annotation IS NULL
get_unannotated_resultsAll(R, qid) ==
    LET rows == {[url |-> r.url, orig_rank |-> r.orig_rank,
                  webpage_json |-> r.webpage_json] :
                     r \in {x \in R : x.qid = qid}}
    IN  {p \in Perms(rows) :
            \A i, j \in 1 .. Len(p) : i < j => p[i].orig_rank <= p[j].orig_rank}

\* SELECT url, orig_rank, webpage_json ... WHERE qid = ? AND annotation IS NULL
\* ORDER BY orig_rank: every order the query may return (rows of equal
\* orig_rank come in an order sqlite does not fix)
get_unannotated_results(R, qid) ==
    LET rows == {[url |-> r.url, orig_rank |-> r.orig_rank,
                  webpage_json |-> r.webpage_json] :
                     r \in {x \in R : x.qid = qid /\ x.annotation = NULL}}
    IN  {p \in Perms(rows) :
            \A i, j \in 1 .. Len(p) : i < j => p[i].orig_rank <= p[j].orig_rank}

\* UPDATE search_results SET annotation = ? WHERE qid = ? AND url = ?
annotateAllOfQuery(R, qid, url, annotation) ==
    {IF r.qid = qid THEN [r EXCEPT !.annotation = {annotation}] ELSE r : r \in R}
annotate(R, qid, url, annotation) ==
    {IF r.qid = qid /\ r.url = url
     THEN [r EXCEPT !.annotation = {annotation}] ELSE r : r \in R}

(* ---------------------------------------------------------------------- *)
(* State                                                                   *)
(* ---------------------------------------------------------------------- *)
VARIABLES
    queries,              \* table queries
    results,              \* table search_results
    pc,                   \* position of the running script, "idle" when none runs
    status,               \* how the last script run ended
    runs,                 \* script runs started so far
    unannotated_queries,  \* the snapshot the main loop iterates over
    qi,                   \* index of the loop's current query in the snapshot
    unnanotated_results,  \* the candidates of the current tournament
    elo,                  \* url -> rating (the dict elo)
    round,                \* tournament rounds executed for the current query
    ranked,               \* the list elo after sorting: [url, label]
    pi,                   \* index of the next entry of ranked to persist
    last,                 \* the last call of the Db interface and what it returned
    hist,                 \* (qid, url, label) a run interrupted while persisting had
                          \* sorted and labelled
    leechy,               \* leechy_annotate.py's locals: leechy_results, bad_results
                          \* and the positions of its two inner loops
    twin,                 \* a second run of the current tournament over the same
                          \* stored results: its rows, ratings and sorted list
    workers               \* the locals of each of several processes running
                          \* auto_annotate.py on the same database file

store == <<queries, results>>
script == <<pc, status, runs, unannotated_queries, qi, unnanotated_results,
            elo, round, ranked, pi>>
vars == <<queries, results, pc, status, runs, unannotated_queries, qi,
          unnanotated_results, elo, round, ranked, pi, last, hist, leechy, twin, workers>>

NoLast == [op |-> "none"]
NoHist == {}
NoLeechy == [results |-> <<>>, i |-> 0, bad |-> <<>>, j |-> 0]
NoTwin == [rows |-> <<>>, elo |-> <<>>, ranked |-> <<>>]
NoWorkers == <<>>

\* longest response of the search collaborator in the pipeline runs
MaxResults == Cardinality(Urls)

\* ELO_SCALE // 2, in rating units
Baseline == (ELO_SCALE \div 2) * UNIT

RECURSIVE SumOver(_, _)
SumOver(f, S) ==
    IF S = {} THEN 0
    ELSE LET x == CHOOSE y \in S : TRUE IN f[x] + SumOver(f, S \ {x})

\* the sequences over S of length 0 .. n
RECURSIVE SeqsUpTo(_, _)
SeqsUpTo(S, n) ==
    IF n = 0 THEN {<<>>}
    ELSE LET shorter == SeqsUpTo(S, n - 1)
         IN  shorter \cup {Append(p, x) : p \in {q \in shorter : Len(q) = n - 1}, x \in S}

\* what get_search_results can return: at most n results
SearchResponses(n) == SeqsUpTo({Result(u, t) : u \in Urls, t \in Titles}, n)

\* the local variables of a script run, cleared
Cleared ==
    /\ unannotated_queries' = <<>>
    /\ qi' = 0
    /\ unnanotated_results' = <<>>
    /\ elo' = <<>>
    /\ round' = 0
    /\ ranked' = <<>>
    /\ pi' = 0
    /\ leechy' = NoLeechy
    /\ twin' = NoTwin
    /\ UNCHANGED workers

CurQid == unannotated_queries[qi].qid

(* ---------------------------------------------------------------------- *)
(* auto_annotate.py                                                        *)
(* ---------------------------------------------------------------------- *)

\* the insert loop over the list all in its order; qids gives each text the
\* qid its row would draw
RECURSIVE InsertLoop(_, _, _)
InsertLoop(Q, all, qids) ==
    IF all = <<>> THEN Q
    ELSE InsertLoop(IF Accepted(Head(all)) THEN add_query(Q, Head(all), qids[Head(all)])
                    ELSE Q,
                    Tail(all), qids)

\* the insert loop over the shuffled all_queries with its commit: every
\* accepted text not yet stored gets a row with a fresh random qid (the
\* rejected texts are skipped wherever the shuffle puts them)
InsertedQueries(Q) ==
    LET texts == {t \in AllQueries : Accepted(t)}
        new   == {t \in texts : ~ \E r \in Q : r.query = t}
        rest  == AllQueries \ texts
        tail  == CHOOSE p \in Perms(rest) : TRUE
        free  == QIds \ {r.qid : r \in Q}
        old   == [t \in AllQueries \ new |-> 0]
    IN  {InsertLoop(Q, all \o tail, f @@ old) :
            all \in Perms(texts),
            f \in {g \in [new -> free] : \A x, y \in new : x # y => g[x] # g[y]}}

\* lines 73-149: load and insert the queries, take the snapshot
Start ==
    /\ pc = "idle"
    /\ runs < MaxRuns
    /\ \E Q \in InsertedQueries(queries) :
          /\ queries' = Q
          /\ unannotated_queries' = get_unannotated_queries(Q, results)
    /\ qi' = 1
    /\ pc' = "loop"
    /\ status' = "running"
    /\ runs' = runs + 1
    /\ UNCHANGED <<results, unnanotated_results, elo, round, ranked, pi, last, hist, leechy, twin, workers>>

\* cur.execute("SELECT 1 FROM search_results WHERE qid = ?").fetchone() is not None
has_results(R, qid) == \E r \in R : r.qid = qid

\* lines 236-247: add_results, the SELECT of the unannotated results, the
\* initial ratings
BeginQuery ==
    /\ pc = "loop"
    /\ qi <= Len(unannotated_queries)
    /\ \E resp \in SearchResponses(MaxResults) :
          /\ results' = IF has_results(results, CurQid) THEN results
                        ELSE insert_results(results, CurQid, resp)
          /\ has_results(results, CurQid) => resp = <<>>
    /\ \E rows \in get_unannotated_results(results', CurQid) :
          /\ unnanotated_results' = rows
          /\ elo' = [u \in {rows[i].url : i \in 1 .. Len(rows)} |-> Baseline]
    /\ round' = 0
    /\ pc' = "rounds"
    /\ UNCHANGED <<queries, status, runs, unannotated_queries, qi, ranked, pi, last, hist, leechy, twin, workers>>

\* requests.post(...) or .json() of get_search_results raises: nothing
\* catches it, the script ends
SearchFails ==
    /\ pc = "loop"
    /\ qi <= Len(unannotated_queries)
    /\ ~ has_results(results, CurQid)
    /\ pc' = "idle"
    /\ status' = "SearchError"
    /\ Cleared
    /\ UNCHANGED <<queries, results, runs, last, hist>>

\* what the judge's completion text contains
Outputs == SUBSET {"Best: RESULT_A", "Best: RESULT_B"}

\* get_best: 1, 0 or None; the values are {1}, {0} and {} (None)
None == {}
get_best(res) ==
    IF "Best: RESULT_A" \in res THEN {1}
    ELSE IF "Best: RESULT_B" \in res THEN {0}
    ELSE None

\* a tournament of one round less per candidate pair
RoundsShort == ELO_ROUNDS_MULT * (Len(unnanotated_results) - 1)
Rounds == ELO_ROUNDS_MULT * Len(unnanotated_results)

\* two draws that may hit the same row
sampleWithReplacement(population) ==
    (1 .. Len(population)) \X (1 .. Len(population))
\* random.sample(population, 2): the positions of two different rows, in
\* the order drawn
sample(population) ==
    {d \in (1 .. Len(population)) \X (1 .. Len(population)) : d[1] # d[2]}

\* lines 252-269 on the rows i and j that random.sample drew and the
\* completion text output: the ratings after the round
AfterRound(e, rows, i, j, output) ==
    LET url_a == rows[i].url
        url_b == rows[j].url
        relevancy == get_best(output)
    IN  IF relevancy = None THEN e
        ELSE IF relevancy = {1} THEN elo_update(url_a, url_b, e)
        ELSE elo_update(url_b, url_a, e)

\* lines 250-269: one round of the tournament
Round ==
    /\ pc = "rounds"
    /\ round < Rounds
    /\ Len(unnanotated_results) >= 2
    /\ \E d \in sample(unnanotated_results), output \in Outputs :
          elo' = AfterRound(elo, unnanotated_results, d[1], d[2], output)
    /\ round' = round + 1
    /\ UNCHANGED <<queries, results, pc, status, runs, unannotated_queries, qi,
                   unnanotated_results, ranked, pi, last, hist, leechy, twin, workers>>

\* random.sample(unnanotated_results, 2) on fewer than two rows raises
\* ValueError: nothing catches it, the script ends
SampleFails ==
    /\ pc = "rounds"
    /\ round < Rounds
    /\ Len(unnanotated_results) < 2
    /\ pc' = "idle"
    /\ status' = "ValueError"
    /\ Cleared
    /\ UNCHANGED <<queries, results, runs, last, hist>>

\* llm.create_completion raises: nothing catches it, the script ends
JudgeFails ==
    /\ pc = "rounds"
    /\ round < Rounds
    /\ Len(unnanotated_results) >= 2
    /\ pc' = "idle"
    /\ status' = "JudgeError"
    /\ Cleared
    /\ UNCHANGED <<queries, results, runs, last, hist>>

\* an ascending sort read backwards: equal keys come out in reverse order
SortedDescReversed(seq, key) ==
    LET n == Len(seq)
        pos(i) == 1 + Cardinality({j \in 1 .. n : key[seq[j]] > key[seq[i]]})
                    + Cardinality({j \in i + 1 .. n : key[seq[j]] = key[seq[i]]})
    IN  [k \in 1 .. n |-> seq[CHOOSE i \in 1 .. n : pos(i) = k]]

\* sorted(seq, key=key, reverse=True): descending, equal keys keep their order
SortedDesc(seq, key) ==
    LET n == Len(seq)
        pos(i) == 1 + Cardinality({j \in 1 .. n : key[seq[j]] > key[seq[i]]})
                    + Cardinality({j \in 1 .. i - 1 : key[seq[j]] = key[seq[i]]})
    IN  [k \in 1 .. n |-> seq[CHOOSE i \in 1 .. n : pos(i) = k]]

\* lines 271-278 on the rows and ratings of a run
SortedAndLabelled(rows, e) ==
    LET urls   == [i \in 1 .. Len(rows) |-> rows[i].url]
        sorted == SortedDesc(urls, e)
    IN  [i \in 1 .. Len(sorted) |-> [url |-> sorted[i], label |-> LabelOf(i - 1)]]

\* lines 271-278: sort by rating, label by position
SortAndLabel ==
    /\ pc = "rounds"
    /\ round = Rounds
    /\ ranked' = SortedAndLabelled(unnanotated_results, elo)
    /\ pi' = 1
    /\ pc' = "persist"
    /\ UNCHANGED <<queries, results, status, runs, unannotated_queries, qi,
                   unnanotated_results, elo, round, last, hist, leechy, twin, workers>>

\* lines 282-293: one UPDATE and its commit
Persist ==
    /\ pc = "persist"
    /\ pi <= Len(ranked)
    /\ results' = annotate(results, CurQid, ranked[pi].url, ranked[pi].label)
    /\ pi' = pi + 1
    /\ UNCHANGED <<queries, pc, status, runs, unannotated_queries, qi,
                   unnanotated_results, elo, round, ranked, last, hist, leechy, twin, workers>>

\* the for loop moves to the next query of the snapshot
NextQuery ==
    /\ pc = "persist"
    /\ pi > Len(ranked)
    /\ qi' = qi + 1
    /\ pc' = "loop"
    /\ unnanotated_results' = <<>>
    /\ elo' = <<>>
    /\ round' = 0
    /\ ranked' = <<>>
    /\ pi' = 0
    /\ UNCHANGED <<queries, results, status, runs, unannotated_queries, last, hist, leechy, twin, workers>>

\* the loop is exhausted: the script ends normally
Finish ==
    /\ pc = "loop"
    /\ qi > Len(unannotated_queries)
    /\ pc' = "idle"
    /\ status' = "done"
    /\ Cleared
    /\ UNCHANGED <<queries, results, runs, last, hist>>

\* the run is interrupted (signal, crash) between two steps; what was
\* committed stays
Interrupt ==
    /\ pc # "idle"
    /\ pc' = "idle"
    /\ status' = "interrupted"
    /\ Cleared
    /\ hist' = IF pc = "persist" /\ 1 < pi /\ pi <= Len(ranked)
               THEN hist \cup {<<CurQid, ranked[i].url, ranked[i].label>> :
                                  i \in 1 .. Len(ranked)}
               ELSE hist
    /\ UNCHANGED <<queries, results, runs, last>>

Init ==
    /\ queries = {}
    /\ results = {}
    /\ pc = "idle"
    /\ status = "none"
    /\ runs = 0
    /\ unannotated_queries = <<>>
    /\ qi = 0
    /\ unnanotated_results = <<>>
    /\ elo = <<>>
    /\ round = 0
    /\ ranked = <<>>
    /\ pi = 0
    /\ last = NoLast
    /\ hist = NoHist
    /\ leechy = NoLeechy
    /\ twin = NoTwin
    /\ workers = NoWorkers

Next ==
    \/ Start
    \/ BeginQuery
    \/ SearchFails
    \/ Round
    \/ SampleFails
    \/ JudgeFails
    \/ SortAndLabel
    \/ Persist
    \/ NextQuery
    \/ Finish
    \/ Interrupt

Spec == Init /\ [][Next]_vars

(* ---------------------------------------------------------------------- *)
(* Tournaments on their own.  The script has stored one query and its      *)
(* results and stands in the tournament of that query: either before the   *)
(* first round, with one result per url, or after the last round of a      *)
(* tournament over n results in which no completion named a winner, or     *)
(* two rounds before the end of such a tournament over four results.       *)
(* ---------------------------------------------------------------------- *)
NUM_RESULTS_PER_QUERY == 20

EloQuery == [qid |-> 1, query |-> <<"a", " ", "b">>, rowid |-> 1]
EloResults(n) == [i \in 1 .. n |-> Result(i, "t1")]
EloRows(n) == [i \in 1 .. n |->
                  [url |-> i, orig_rank |-> i - 1, webpage_json |-> Result(i, "t1")]]

TournamentOf(n, played) ==
    /\ queries = {EloQuery}
    /\ results = insert_results({}, 1, EloResults(n))
    /\ pc = "rounds"
    /\ status = "running"
    /\ runs = 1
    /\ unannotated_queries = <<Selected(EloQuery)>>
    /\ qi = 1
    /\ unnanotated_results = EloRows(n)
    /\ elo = [u \in 1 .. n |-> Baseline]
    /\ round = played
    /\ ranked = <<>>
    /\ pi = 0
    /\ last = NoLast
    /\ hist = NoHist
    /\ leechy = NoLeechy

InTournament(n, played) ==
    TournamentOf(n, played) /\ twin = NoTwin /\ workers = NoWorkers

InitElo ==
    \/ InTournament(Cardinality(Urls), 0)
    \/ \E n \in 2 .. NUM_RESULTS_PER_QUERY : InTournament(n, ELO_ROUNDS_MULT * n)
    \/ InTournament(4, ELO_ROUNDS_MULT * 4 - 2)

NextElo ==
    \/ Round
    \/ SortAndLabel
    \/ Persist
    \/ NextQuery
    \/ Finish

SpecElo == InitElo /\ [][NextElo]_vars

(* ---------------------------------------------------------------------- *)
(* The tournament of a query with four results C1 .. C4 (urls 1 .. 4,      *)
(* orig_rank 0 .. 3) and a judge that always prefers the result with the   *)
(* lower orig_rank.                                                        *)
(* ---------------------------------------------------------------------- *)
\* the completion of the judge that prefers the lower orig_rank
PrefersLower(rows, i, j) ==
    IF rows[i].orig_rank < rows[j].orig_rank
    THEN {"Best: RESULT_A"} ELSE {"Best: RESULT_B"}

\* the draws of random.sample followed here: C1 with C2, or C3 with C4, in
\* either order
ExampleDraws == {<<1, 2>>, <<2, 1>>, <<3, 4>>, <<4, 3>>}

RoundExample ==
    /\ pc = "rounds"
    /\ round < Rounds
    /\ Len(unnanotated_results) >= 2
    /\ \E i, j \in 1 .. Len(unnanotated_results) :
          /\ <<i, j>> \in ExampleDraws
          /\ elo' = AfterRound(elo, unnanotated_results, i, j,
                               PrefersLower(unnanotated_results, i, j))
    /\ round' = round + 1
    /\ UNCHANGED <<queries, results, pc, status, runs, unannotated_queries, qi,
                   unnanotated_results, ranked, pi, last, hist, leechy, twin, workers>>

InitExample == InTournament(4, 0)

NextExample ==
    \/ RoundExample
    \/ SortAndLabel
    \/ Persist
    \/ NextQuery
    \/ Finish

SpecExample == InitExample /\ [][NextExample]_vars

(* ---------------------------------------------------------------------- *)
(* Two runs of the tournament of one query over the same stored results,   *)
(* side by side: each round the judge gives both runs the same completion, *)
(* and each run draws its own pair with random.sample.                     *)
(* ---------------------------------------------------------------------- *)
InitTwin ==
    /\ TournamentOf(Cardinality(Urls), 0)
    /\ \E rows \in get_unannotated_results(results, EloQuery.qid) :
          twin = [rows |-> rows, elo |-> [u \in Urls |-> Baseline], ranked |-> <<>>]
    /\ workers = NoWorkers

RoundTwin ==
    /\ pc = "rounds"
    /\ round < Rounds
    /\ Len(unnanotated_results) >= 2
    /\ \E output \in Outputs :
          /\ \E i, j \in 1 .. Len(unnanotated_results) :
                /\ i # j
                /\ elo' = AfterRound(elo, unnanotated_results, i, j, output)
          /\ \E i, j \in 1 .. Len(twin.rows) :
                /\ i # j
                /\ twin' = [twin EXCEPT !.elo = AfterRound(twin.elo, twin.rows, i, j, output)]
    /\ round' = round + 1
    /\ UNCHANGED <<queries, results, pc, status, runs, unannotated_queries, qi,
                   unnanotated_results, ranked, pi, last, hist, leechy, workers>>

SortAndLabelTwin ==
    /\ pc = "rounds"
    /\ round = Rounds
    /\ ranked' = SortedAndLabelled(unnanotated_results, elo)
    /\ twin' = [twin EXCEPT !.ranked = SortedAndLabelled(twin.rows, twin.elo)]
    /\ pi' = 1
    /\ pc' = "persist"
    /\ UNCHANGED <<queries, results, status, runs, unannotated_queries, qi,
                   unnanotated_results, elo, round, last, hist, leechy, workers>>

NextTwin ==
    \/ RoundTwin
    \/ SortAndLabelTwin

SpecTwin == InitTwin /\ [][NextTwin]_vars

(* ---------------------------------------------------------------------- *)
(* db.py: the methods of Db, called in any order with any arguments.       *)
(* last holds the call, what it returned or raised, and the calls so far.  *)
(* ---------------------------------------------------------------------- *)
\* calls of Db methods in one behaviour
MaxCalls == 3

StoreTitles == {"t1", "t2"}
StoreResults == {Result(u, t) : u \in Urls, t \in StoreTitles}
StoreLabels == {0, NUM_LABELS}
StoreQueries == {t \in AllQueries : Accepted(t)}

Calls == IF last.op = "none" THEN 0 ELSE last.calls

Idle == UNCHANGED <<pc, status, runs, unannotated_queries, qi, unnanotated_results,
                    elo, round, ranked, pi, hist, leechy, twin, workers>>

DbAddQuery ==
    /\ Calls < MaxCalls
    /\ \E query \in StoreQueries, qid \in QIds \ {r.qid : r \in queries} :
          /\ queries' = add_query(queries, query, qid)
          /\ last' = [op |-> "add_query", query |-> query, raised |-> "nothing",
                      calls |-> Calls + 1]
    /\ UNCHANGED results
    /\ Idle

DbInsertResult ==
    /\ Calls < MaxCalls
    /\ \E qid \in QIds, rank \in 0 .. MaxResults, result \in StoreResults :
          /\ results' = insert_result(results, qid, rank, result)
          /\ last' = [op |-> "insert_result", qid |-> qid, rank |-> rank,
                      result |-> result, raised |-> "nothing", calls |-> Calls + 1]
    /\ UNCHANGED queries
    /\ Idle

DbInsertResults ==
    /\ Calls < MaxCalls
    /\ \E qid \in QIds, res \in SeqsUpTo(StoreResults, MaxResults) :
          /\ results' = insert_results(results, qid, res)
          /\ last' = [op |-> "insert_results", qid |-> qid, results |-> res,
                      before |-> results,
                      raised |-> "nothing", calls |-> Calls + 1]
    /\ UNCHANGED queries
    /\ Idle

\* the process is killed inside insert_results, after the commit of the
\* k-th insert_result and before the next
DbInsertResultsInterrupted ==
    /\ Calls < MaxCalls
    /\ \E qid \in QIds, res \in SeqsUpTo(StoreResults, MaxResults) :
          \E k \in 1 .. Len(res) - 1 :
              /\ results' = insert_results(results, qid, SubSeq(res, 1, k))
              /\ last' = [op |-> "insert_results", qid |-> qid, results |-> res,
                          before |-> results,
                          raised |-> "killed", calls |-> Calls + 1]
    /\ UNCHANGED queries
    /\ Idle

DbGetUnannotatedQueries ==
    /\ Calls < MaxCalls
    /\ last' = [op |-> "get_unannotated_queries",
                returned |-> get_unannotated_queries(queries, results),
                raised |-> "nothing", calls |-> Calls + 1]
    /\ UNCHANGED <<queries, results>>
    /\ Idle

DbGetUnannotatedResults ==
    /\ Calls < MaxCalls
    /\ \E qid \in QIds : \E rows \in get_unannotated_results(results, qid) :
          last' = [op |-> "get_unannotated_results", qid |-> qid, returned |-> rows,
                   raised |-> "nothing", calls |-> Calls + 1]
    /\ UNCHANGED <<queries, results>>
    /\ Idle

\* the UPDATE of a pair that is not stored changes no row and raises nothing
DbAnnotate ==
    /\ Calls < MaxCalls
    /\ \E qid \in QIds, url \in Urls, annotation \in StoreLabels :
          /\ results' = annotate(results, qid, url, annotation)
          /\ last' = [op |-> "annotate", qid |-> qid, url |-> url,
                      annotation |-> annotation,
                      existed |-> \E r \in results : r.qid = qid /\ r.url = url,
                      before |-> results,
                      raised |-> "nothing", calls |-> Calls + 1]
    /\ UNCHANGED queries
    /\ Idle

NextStore ==
    \/ DbAddQuery
    \/ DbInsertResult
    \/ DbInsertResults
    \/ DbInsertResultsInterrupted
    \/ DbGetUnannotatedQueries
    \/ DbGetUnannotatedResults
    \/ DbAnnotate

SpecStore == Init /\ [][NextStore]_vars

(* ---------------------------------------------------------------------- *)
(* leechy_annotate.py                                                      *)
(* ---------------------------------------------------------------------- *)
\* longest result list of the leechy engine
MaxLeechy == 32

\* what eng.search returns: the urls 1 .. n in the engine's order
LeechyLists == {[k \in 1 .. n |-> k] : n \in {0, 1, 2, MaxLeechy}}

\* the urls for which stract's exacturl search returns the page
StractIndexed == {u \in 1 .. MaxLeechy : u % 8 = 0} \cup Urls

\* what stract.search(query, page) returns; page = 2 lands in num_results
BadResponses(page) ==
    {res \in {<<>>, <<Result(3, "t1")>>, <<Result(1, "t1"), Result(3, "t1")>>,
              <<Result(3, "t1"), Result(1, "t1"), Result(2, "t1")>>} : Len(res) <= page}

Auto == <<unnanotated_results, elo, round, ranked, pi, last, hist, twin, workers>>

\* lines 11-40: load, filter and add the queries, take the snapshot
LeechyStart ==
    /\ pc = "idle"
    /\ runs < MaxRuns
    /\ \E Q \in InsertedQueries(queries) :
          /\ queries' = Q
          /\ unannotated_queries' = get_unannotated_queries(Q, results)
    /\ qi' = 1
    /\ pc' = "l_loop"
    /\ status' = "running"
    /\ runs' = runs + 1
    /\ UNCHANGED <<results, leechy>>
    /\ UNCHANGED Auto

\* lines 44-57: up to three searches of the engine
LeechySearch ==
    /\ pc = "l_loop"
    /\ qi <= Len(unannotated_queries)
    /\ \E res \in LeechyLists :
          /\ Len(res) > 0
          /\ leechy' = [results |-> res, i |-> 1, bad |-> <<>>, j |-> 0]
    /\ pc' = "l_results"
    /\ UNCHANGED <<queries, results, status, runs, unannotated_queries, qi>>
    /\ UNCHANGED Auto

\* lines 55-57: three empty result lists, sys.exit(-1)
LeechyExit ==
    /\ pc = "l_loop"
    /\ qi <= Len(unannotated_queries)
    /\ <<>> \in LeechyLists
    /\ pc' = "idle"
    /\ status' = "exit"
    /\ Cleared
    /\ UNCHANGED <<queries, results, runs, last, hist>>

\* lines 59-75: the label of position i, the exacturl search, insert_result
LeechyInsert ==
    /\ pc = "l_results"
    /\ leechy.i <= Len(leechy.results)
    /\ LET result == leechy.results[leechy.i]
       IN  IF result \in StractIndexed
           THEN /\ results' = insert_result(results, CurQid, leechy.i - 1,
                                            Result(result, "t1"))
                /\ pc' = "l_annotate"
                /\ leechy' = leechy
           ELSE /\ results' = results
                /\ pc' = pc
                /\ leechy' = [leechy EXCEPT !.i = @ + 1]
    /\ UNCHANGED <<queries, status, runs, unannotated_queries, qi>>
    /\ UNCHANGED Auto

\* line 76: db.annotate(qid, result, label)
LeechyAnnotate ==
    /\ pc = "l_annotate"
    /\ results' = annotate(results, CurQid, leechy.results[leechy.i],
                           LabelOf(leechy.i - 1))
    /\ leechy' = [leechy EXCEPT !.i = @ + 1]
    /\ pc' = "l_results"
    /\ UNCHANGED <<queries, status, runs, unannotated_queries, qi>>
    /\ UNCHANGED Auto

\* line 79: bad_results = stract.search(query, page), page = 2
LeechyBadSearch ==
    /\ pc = "l_results"
    /\ leechy.i > Len(leechy.results)
    /\ \E bad \in BadResponses(2) : leechy' = [leechy EXCEPT !.bad = bad, !.j = 1]
    /\ pc' = "l_bad"
    /\ UNCHANGED <<queries, results, status, runs, unannotated_queries, qi>>
    /\ UNCHANGED Auto

\* lines 81-87: skip the urls leechy returned, insert the others
LeechyBadInsert ==
    /\ pc = "l_bad"
    /\ leechy.j <= Len(leechy.bad)
    /\ LET result == leechy.bad[leechy.j]
       IN  IF result.url \in Range(leechy.results)
           THEN /\ results' = results
                /\ pc' = pc
                /\ leechy' = [leechy EXCEPT !.j = @ + 1]
           ELSE /\ results' = insert_result(results, CurQid, leechy.j * 2, result)
                /\ pc' = "l_bad_annotate"
                /\ leechy' = leechy
    /\ UNCHANGED <<queries, status, runs, unannotated_queries, qi>>
    /\ UNCHANGED Auto

\* line 88: db.annotate(qid, result["url"], 0)
LeechyBadAnnotate ==
    /\ pc = "l_bad_annotate"
    /\ results' = annotate(results, CurQid, leechy.bad[leechy.j].url, 0)
    /\ leechy' = [leechy EXCEPT !.j = @ + 1]
    /\ pc' = "l_bad"
    /\ UNCHANGED <<queries, status, runs, unannotated_queries, qi>>
    /\ UNCHANGED Auto

\* line 90: the sleep, then the next query of the snapshot
LeechyNext ==
    /\ pc = "l_bad"
    /\ leechy.j > Len(leechy.bad)
    /\ qi' = qi + 1
    /\ pc' = "l_loop"
    /\ leechy' = NoLeechy
    /\ UNCHANGED <<queries, results, status, runs, unannotated_queries>>
    /\ UNCHANGED Auto

\* line 90: np.random.normal(60, 20) is negative and time.sleep raises
LeechySleepFails ==
    /\ pc = "l_bad"
    /\ leechy.j > Len(leechy.bad)
    /\ pc' = "idle"
    /\ status' = "SleepError"
    /\ Cleared
    /\ UNCHANGED <<queries, results, runs, last, hist>>

\* the loop is exhausted: the script ends normally
LeechyFinish ==
    /\ pc = "l_loop"
    /\ qi > Len(unannotated_queries)
    /\ pc' = "idle"
    /\ status' = "done"
    /\ Cleared
    /\ UNCHANGED <<queries, results, runs, last, hist>>

NextLeechy ==
    \/ LeechyStart
    \/ LeechySearch
    \/ LeechyExit
    \/ LeechyInsert
    \/ LeechyAnnotate
    \/ LeechyBadSearch
    \/ LeechyBadInsert
    \/ LeechyBadAnnotate
    \/ LeechyNext
    \/ LeechySleepFails
    \/ LeechyFinish
    \/ Interrupt

SpecLeechy == Init /\ [][NextLeechy]_vars

(* ---------------------------------------------------------------------- *)
(* leechy_annotate.py with the delay of line 90 recorded: the seconds      *)
(* np.random.normal(60, 20) drew and what time.sleep did with them.        *)
(* ---------------------------------------------------------------------- *)
\* draws of np.random.normal(60, 20), in whole seconds: the normal
\* distribution has every real number in its support
NormalDraws == {-5, 0, 60}

\* time.sleep raises ValueError on a negative length
time_sleep(secs) == IF secs < 0 THEN "ValueError" ELSE "nothing"

\* line 90: the sleep returns, then the next query of the snapshot
LeechySleep ==
    /\ pc = "l_bad"
    /\ leechy.j > Len(leechy.bad)
    /\ \E secs \in NormalDraws :
          /\ time_sleep(secs) = "nothing"
          /\ last' = [op |-> "sleep", secs |-> secs, raised |-> "nothing"]
    /\ qi' = qi + 1
    /\ pc' = "l_loop"
    /\ leechy' = NoLeechy
    /\ UNCHANGED <<queries, results, status, runs, unannotated_queries>>
    /\ UNCHANGED <<unnanotated_results, elo, round, ranked, pi, hist, twin, workers>>

\* line 90: time.sleep raises, nothing catches it, the script ends
LeechySleepRaises ==
    /\ pc = "l_bad"
    /\ leechy.j > Len(leechy.bad)
    /\ \E secs \in NormalDraws :
          /\ time_sleep(secs) # "nothing"
          /\ last' = [op |-> "sleep", secs |-> secs, raised |-> time_sleep(secs)]
    /\ pc' = "idle"
    /\ status' = time_sleep(last'.secs)
    /\ Cleared
    /\ UNCHANGED <<queries, results, runs, hist>>

NextDelay ==
    \/ LeechyStart
    \/ LeechySearch
    \/ LeechyExit
    \/ LeechyInsert
    \/ LeechyAnnotate
    \/ LeechyBadSearch
    \/ LeechyBadInsert
    \/ LeechyBadAnnotate
    \/ LeechySleep
    \/ LeechySleepRaises
    \/ LeechyFinish

SpecDelay == Init /\ [][NextDelay]_vars

(* ---------------------------------------------------------------------- *)
(* Both scripts: each run is a run of auto_annotate.py or of               *)
(* leechy_annotate.py on the same database file.                           *)
(* ---------------------------------------------------------------------- *)
NextScripts == Next \/ NextLeechy

SpecScripts == Init /\ [][NextScripts]_vars

(* ---------------------------------------------------------------------- *)
(* The rounds of a tournament, each round recorded: the two urls drawn,    *)
(* the completion text, the ratings before the round and the urls of the   *)
(* round before.                                                           *)
(* ---------------------------------------------------------------------- *)
\* lines 250-269: one round of the tournament, recorded in last
RoundLogged ==
    /\ pc = "rounds"
    /\ round < Rounds
    /\ Len(unnanotated_results) >= 2
    /\ \E d \in sample(unnanotated_results), output \in Outputs :
          /\ elo' = AfterRound(elo, unnanotated_results, d[1], d[2], output)
          /\ last' = [op |-> "round",
                      url_a |-> unnanotated_results[d[1]].url,
                      url_b |-> unnanotated_results[d[2]].url,
                      output |-> output,
                      before |-> elo,
                      prev |-> IF last.op = "round"
                               THEN {last.url_a, last.url_b} ELSE {}]
    /\ round' = round + 1
    /\ UNCHANGED <<queries, results, pc, status, runs, unannotated_queries, qi,
                   unnanotated_results, ranked, pi, hist, leechy, twin, workers>>

\* two candidates from the first round; three candidates in the last three
\* rounds after undecided ones
InitRounds ==
    \/ InTournament(2, 0)
    \/ InTournament(3, ELO_ROUNDS_MULT * 3 - 3)

NextRounds ==
    \/ RoundLogged
    \/ SortAndLabel
    \/ Persist
    \/ NextQuery
    \/ Finish

SpecRounds == InitRounds /\ [][NextRounds]_vars

(* ---------------------------------------------------------------------- *)
(* Two processes running auto_annotate.py at the same time on one          *)
(* database file.  sqlite serialises the statements and commits; nothing   *)
(* in the script takes a lock or marks a query as taken.  workers[w] holds *)
(* the locals of process w; tournaments is the set of (qid, sorted list)   *)
(* the process has computed.  The rounds of a tournament touch no shared   *)
(* state and are taken as one step.                                        *)
(* ---------------------------------------------------------------------- *)
Workers == {1, 2}

IdleWorker == [pc |-> "idle", unannotated_queries |-> <<>>, qi |-> 0,
               unnanotated_results |-> <<>>, ranked |-> <<>>, pi |-> 0,
               tournaments |-> {}]

\* the answers of the search API followed here: one result per url
FullResponses ==
    {resp \in SearchResponses(MaxResults) :
        Len(resp) = MaxResults /\ \A i, j \in 1 .. Len(resp) : i # j => resp[i].url # resp[j].url}

\* the ratings a tournament over rows can have after k rounds
RECURSIVE RatingsAfter(_, _)
RatingsAfter(rows, k) ==
    IF k = 0 THEN {[u \in {rows[i].url : i \in 1 .. Len(rows)} |-> Baseline]}
    ELSE LET before == RatingsAfter(rows, k - 1)
         IN  {AfterRound(e, rows, d[1], d[2], output) :
                 e \in before, d \in sample(rows), output \in Outputs}

\* the lists the SELECT of line 237 can give for a query whose results came
\* from one answer of the search API, some of them labelled since
RowLists ==
    UNION {get_unannotated_results(
               {[r EXCEPT !.annotation = IF r.url \in S THEN {0} ELSE NULL] :
                   r \in insert_results({}, 1, resp)}, 1) :
           resp \in FullResponses, S \in SUBSET Urls}

\* lines 249-278, tabulated: the sorted, labelled lists a tournament over
\* rows can end with, over every draw and every completion of its rounds
TournamentOutcomes ==
    [rows \in RowLists |->
        {SortedAndLabelled(rows, e) :
            e \in RatingsAfter(rows, ELO_ROUNDS_MULT * Len(rows))}]

OthersUnchanged ==
    UNCHANGED <<pc, status, runs, unannotated_queries, qi, unnanotated_results,
                elo, round, ranked, pi, last, hist, leechy, twin>>

\* lines 73-149 in process w
WorkerStart(w) ==
    /\ workers[w].pc = "idle"
    /\ \E Q \in InsertedQueries(queries) :
          /\ queries' = Q
          /\ workers' = [workers EXCEPT ![w] =
                 [@ EXCEPT !.pc = "loop",
                           !.unannotated_queries = get_unannotated_queries(Q, results),
                           !.qi = 1]]
    /\ UNCHANGED results
    /\ OthersUnchanged

\* lines 236-247 in process w: add_results and the SELECT of the rows
WorkerBeginQuery(w) ==
    LET me  == workers[w]
        qid == me.unannotated_queries[me.qi].qid
    IN  /\ me.pc = "loop"
        /\ me.qi <= Len(me.unannotated_queries)
        /\ \E resp \in FullResponses :
              results' = IF has_results(results, qid) THEN results
                         ELSE insert_results(results, qid, resp)
        /\ \E rows \in get_unannotated_results(results', qid) :
              workers' = [workers EXCEPT ![w] =
                  [@ EXCEPT !.pc = "rounds", !.unnanotated_results = rows]]
        /\ UNCHANGED queries
        /\ OthersUnchanged

\* lines 249-278 in process w: the rounds, the sort and the labels
WorkerTournament(w) ==
    LET me   == workers[w]
        rows == me.unnanotated_results
        qid  == me.unannotated_queries[me.qi].qid
    IN  /\ me.pc = "rounds"
        /\ Len(rows) # 1
        /\ \E sorted \in TournamentOutcomes[rows] :
              workers' = [workers EXCEPT ![w] =
                  [@ EXCEPT !.pc = "persist", !.ranked = sorted, !.pi = 1,
                            !.tournaments = @ \cup {<<qid, sorted>>}]]
        /\ UNCHANGED <<queries, results>>
        /\ OthersUnchanged

\* line 250 in process w: random.sample on a single row raises ValueError,
\* the process ends
WorkerSampleFails(w) ==
    /\ workers[w].pc = "rounds"
    /\ Len(workers[w].unnanotated_results) = 1
    /\ workers' = [workers EXCEPT ![w] = [@ EXCEPT !.pc = "ValueError"]]
    /\ UNCHANGED <<queries, results>>
    /\ OthersUnchanged

\* lines 282-293 in process w: one UPDATE and its commit
WorkerPersist(w) ==
    LET me  == workers[w]
        qid == me.unannotated_queries[me.qi].qid
    IN  /\ me.pc = "persist"
        /\ me.pi <= Len(me.ranked)
        /\ results' = annotate(results, qid, me.ranked[me.pi].url, me.ranked[me.pi].label)
        /\ workers' = [workers EXCEPT ![w] = [@ EXCEPT !.pi = @ + 1]]
        /\ UNCHANGED queries
        /\ OthersUnchanged

\* process w moves to the next query of its snapshot
WorkerNextQuery(w) ==
    LET me == workers[w]
    IN  /\ me.pc = "persist"
        /\ me.pi > Len(me.ranked)
        /\ workers' = [workers EXCEPT ![w] =
               [@ EXCEPT !.pc = "loop", !.qi = @ + 1, !.unnanotated_results = <<>>,
                         !.ranked = <<>>, !.pi = 0]]
        /\ UNCHANGED <<queries, results>>
        /\ OthersUnchanged

\* the loop of process w is exhausted: the process ends
WorkerFinish(w) ==
    LET me == workers[w]
    IN  /\ me.pc = "loop"
        /\ me.qi > Len(me.unannotated_queries)
        /\ workers' = [workers EXCEPT ![w] = [@ EXCEPT !.pc = "done"]]
        /\ UNCHANGED <<queries, results>>
        /\ OthersUnchanged

InitWorkers ==
    /\ queries = {}
    /\ results = {}
    /\ pc = "idle"
    /\ status = "none"
    /\ runs = 0
    /\ unannotated_queries = <<>>
    /\ qi = 0
    /\ unnanotated_results = <<>>
    /\ elo = <<>>
    /\ round = 0
    /\ ranked = <<>>
    /\ pi = 0
    /\ last = NoLast
    /\ hist = NoHist
    /\ leechy = NoLeechy
    /\ twin = NoTwin
    /\ workers = [w \in Workers |-> IdleWorker]

NextWorkers ==
    \E w \in Workers :
        \/ WorkerStart(w)
        \/ WorkerBeginQuery(w)
        \/ WorkerTournament(w)
        \/ WorkerSampleFails(w)
        \/ WorkerPersist(w)
        \/ WorkerNextQuery(w)
        \/ WorkerFinish(w)

SpecWorkers == InitWorkers /\ [][NextWorkers]_vars

(* ---------------------------------------------------------------------- *)
(* get_search_results on the webpages of the search API's answer.  The     *)
(* snippet of a webpage is {"text": {"fragments": [...]}} ("fragments"),   *)
(* an object without "text" ("no_text"), an object whose "text" has no     *)
(* "fragments" ("no_fragments"), or the key is missing ("absent").         *)
(* ---------------------------------------------------------------------- *)
\* longest answer of the search API considered
MaxPages == 3

SnippetShapes == {"fragments", "no_text", "no_fragments", "absent"}
Webpages == {[url |-> u, title |-> "t1", snippet |-> sn] : u \in Urls, sn \in SnippetShapes}

\* simplify_snippet: "" without "text", the joined fragments otherwise;
\* snippet["text"]["fragments"] raises KeyError when there are none
simplify_snippet(snippet) ==
    IF snippet = "no_text" THEN [raised |-> "nothing", value |-> ""]
    ELSE IF snippet = "fragments" THEN [raised |-> "nothing", value |-> "text"]
    ELSE [raised |-> "KeyError", value |-> ""]

\* the list comprehension of get_search_results over webpages[:NUM_RESULTS_PER_QUERY]:
\* w["snippet"] raises KeyError when the key is missing
get_search_results(webpages) ==
    LET n  == IF Len(webpages) < NUM_RESULTS_PER_QUERY THEN Len(webpages)
              ELSE NUM_RESULTS_PER_QUERY
        ws == SubSeq(webpages, 1, n)
    IN  IF \E k \in 1 .. n :
              \/ ws[k].snippet = "absent"
              \/ simplify_snippet(ws[k].snippet).raised # "nothing"
        THEN [raised |-> "KeyError", returned |-> <<>>]
        ELSE [raised |-> "nothing",
              returned |-> [k \in 1 .. n |->
                              [url |-> ws[k].url, title |-> ws[k].title,
                               snippet |-> simplify_snippet(ws[k].snippet).value]]]

\* add_results for the one stored query, given the API's answer
AddResultsOf ==
    /\ ~ has_results(results, EloQuery.qid)
    /\ \E webpages \in SeqsUpTo(Webpages, MaxPages) :
          LET got == get_search_results(webpages)
          IN  /\ got.raised = "nothing"
              /\ results' = insert_results(results, EloQuery.qid, got.returned)
              /\ last' = [op |-> "get_search_results", webpages |-> webpages,
                          raised |-> "nothing", returned |-> got.returned]
    /\ UNCHANGED queries
    /\ Idle

\* get_search_results raises inside add_results: nothing is stored
AddResultsRaises ==
    /\ ~ has_results(results, EloQuery.qid)
    /\ \E webpages \in SeqsUpTo(Webpages, MaxPages) :
          LET got == get_search_results(webpages)
          IN  /\ got.raised # "nothing"
              /\ last' = [op |-> "get_search_results", webpages |-> webpages,
                          raised |-> got.raised, returned |-> <<>>]
    /\ UNCHANGED <<queries, results>>
    /\ Idle

InitFetch ==
    /\ queries = {EloQuery}
    /\ results = {}
    /\ pc = "idle"
    /\ status = "none"
    /\ runs = 0
    /\ unannotated_queries = <<>>
    /\ qi = 0
    /\ unnanotated_results = <<>>
    /\ elo = <<>>
    /\ round = 0
    /\ ranked = <<>>
    /\ pi = 0
    /\ last = NoLast
    /\ hist = NoHist
    /\ leechy = NoLeechy
    /\ twin = NoTwin
    /\ workers = NoWorkers

NextFetch ==
    \/ AddResultsOf
    \/ AddResultsRaises

SpecFetch == InitFetch /\ [][NextFetch]_vars

(* ---------------------------------------------------------------------- *)
(* Properties                                                              *)
(* ---------------------------------------------------------------------- *)
\* the stored row of (qid, url)
Rows(qid, url) == {r \in results : r.qid = qid /\ r.url = url}

\* the queries that are not fully annotated: no stored result, or a stored
\* result with a null label
NotFullyAnnotated ==
    {q \in queries :
        \/ ~ \E r \in results : r.qid = q.qid
        \/ \E r \in results : r.qid = q.qid /\ r.annotation = NULL}

\* C1: when a run was interrupted after some but not all of the labels of a
\* query were persisted, and a later run has run to completion, the store
\* holds for that query every (url, label) the interrupted run had computed,
\* which are the labels the run would have stored uninterrupted.
C1_Resumable ==
    (pc = "idle" /\ status = "done") =>
        \A t \in hist : \E r \in Rows(t[1], t[2]) : r.annotation = {t[3]}

\* C2: the snapshot a run takes of the unannotated queries holds exactly the
\* queries that are not fully annotated.
C2_UnannotatedQueries ==
    (pc = "loop" /\ qi = 1) =>
        Range(unannotated_queries) = {Selected(q) : q \in NotFullyAnnotated}

\* C3: calling add_query or insert_results a second time with the arguments
\* of the call just made leaves both tables as that call left them, whatever
\* qid the second add_query draws.
C3_IdempotentInsert ==
    /\ last.op = "add_query" =>
          \A qid \in QIds : add_query(queries, last.query, qid) = queries
    /\ (last.op = "insert_results" /\ last.raised = "nothing") =>
          insert_results(results, last.qid, last.results) = results
\* results were inserted again for a query that holds a labelled result
C3_Witness ==
    /\ last.op = "insert_results"
    /\ last.raised = "nothing"
    /\ Len(last.results) = 2
    /\ \E r \in results : r.qid = last.qid /\ r.annotation # NULL
    /\ \E r \in results : r.qid = last.qid /\ r.annotation = NULL

\* C4: every stored label is null or one of 0 .. NUM_LABELS.
C4_LabelsBounded ==
    \A r \in results : r.annotation = NULL \/ r.annotation \subseteq 0 .. NUM_LABELS

\* C5: annotate on a pair that is not stored fails with NotFoundError and
\* leaves the store unchanged; on a stored pair it sets the label.
C5_AnnotateNotFound ==
    last.op = "annotate" =>
        IF last.existed
        THEN \A r \in Rows(last.qid, last.url) : r.annotation = {last.annotation}
        ELSE last.raised = "NotFoundError" /\ results = last.before

\* C6: a run whose query has exactly one unlabelled candidate does not fail:
\* no run ends in the ValueError of sampling two candidates out of one.
C6_SingleCandidate == status # "ValueError"

\* C7: a failure of the search or of the judge collaborator never aborts
\* the run.
C7_NoAbort == status \notin {"SearchError", "JudgeError"}

\* the candidates a tournament submits to the judge are unlabelled
C8_PoolUnlabelled ==
    pc = "rounds" =>
        \A i \in 1 .. Len(unnanotated_results) :
            \A r \in Rows(CurQid, unnanotated_results[i].url) : r.annotation = NULL
\* every candidate still to be persisted is unlabelled, and no url is
\* persisted twice
C8_PendingUnlabelled ==
    pc = "persist" =>
        /\ \A k \in pi .. Len(ranked) :
              \A r \in Rows(CurQid, ranked[k].url) : r.annotation = NULL
        /\ \A j, k \in 1 .. Len(ranked) : j # k => ranked[j].url # ranked[k].url
\* a labelled row is kept as it is by every step
C8_Kept == \A r \in results : r.annotation # NULL => r \in results'
\* C8: a label, once stored, is never cleared or changed by any step of any
\* run; the candidates a tournament submits to the judge are unlabelled, and
\* every candidate still to be persisted is unlabelled, so that the judging
\* process labels each pair at most once.
C8_LabelsNeverLost ==
    [](C8_PoolUnlabelled /\ C8_PendingUnlabelled) /\ [][C8_Kept]_vars
\* a second run persists a label while another query holds labels of the
\* first run
C8_Witness ==
    /\ runs = 2
    /\ pc = "persist"
    /\ pi > 1
    /\ \E r \in results : r.qid # CurQid /\ r.annotation # NULL

RatingSum(e) == SumOver(e, DOMAIN e)
RECURSIVE MaxOver(_, _)
MaxOver(f, S) ==
    IF S = {} THEN 0
    ELSE LET x == CHOOSE y \in S : TRUE
             m == MaxOver(f, S \ {x})
         IN  IF f[x] > m THEN f[x] ELSE m

\* C9 as claimed: the ratings of a tournament always add up to N x baseline.
C9_ZeroSum ==
    pc = "rounds" => RatingSum(elo) = Cardinality(DOMAIN elo) * Baseline

\* the increment added to the winner is the negated increment added to the
\* loser, whatever pair plays
C9_IncrementsNegated ==
    pc = "rounds" =>
        \A w, l \in DOMAIN elo :
            w # l => IncWinner(elo[w], elo[l]) = -IncLoser(elo[w], elo[l])
\* a round changes the rating total by at most one unit in the last place of
\* the largest rating
C9_RoundStep ==
    (pc = "rounds" /\ pc' = "rounds") =>
        Abs(RatingSum(elo') - RatingSum(elo))
            <= GridOf(MaxOver(elo', DOMAIN elo'), 256 * UNIT, 1)
\* C9 as amended: the increment added to the winner is exactly the negated
\* increment added to the loser; each rating being stored as a rounded
\* floating-point sum, a round changes the rating total by at most one unit
\* in the last place of the largest rating.
C9_ZeroSumUpToRounding == []C9_IncrementsNegated /\ [][C9_RoundStep]_vars
\* rounds were decided and the total has left N x baseline
C9_Witness ==
    /\ pc = "rounds"
    /\ round >= 2
    /\ RatingSum(elo) # Cardinality(DOMAIN elo) * Baseline

\* C10: in the sorted, labelled list of a tournament a better (smaller)
\* position never has a smaller label.
C10_MonotoneLabels ==
    pc = "persist" =>
        \A i, j \in 1 .. Len(ranked) : i < j => ranked[i].label >= ranked[j].label
\* a tournament over at least 16 candidates is labelled from 4 down to 0
C10_Witness ==
    /\ pc = "persist"
    /\ Len(ranked) >= 16
    /\ ranked[1].label > ranked[4].label
    /\ ranked[4].label > ranked[16].label

\* the orig_rank of a candidate of the current tournament
OrigRankOf(url) ==
    LET k == CHOOSE k \in 1 .. Len(unnanotated_results) : unnanotated_results[k].url = url
    IN  unnanotated_results[k].orig_rank

\* C11: the sorted list of a tournament is in descending order of the final
\* ratings, and candidates of equal rating are in ascending order of their
\* orig_rank; when every rating is still the baseline the list is the
\* candidates in orig_rank order.
C11_FinalOrdering ==
    pc = "persist" =>
        /\ \A i, j \in 1 .. Len(ranked) :
              i < j =>
                 \/ elo[ranked[i].url] > elo[ranked[j].url]
                 \/ /\ elo[ranked[i].url] = elo[ranked[j].url]
                    /\ OrigRankOf(ranked[i].url) < OrigRankOf(ranked[j].url)
        /\ (\A u \in DOMAIN elo : elo[u] = Baseline) =>
              \A i \in 1 .. Len(ranked) : ranked[i].url = unnanotated_results[i].url
\* a sorted list of four candidates: a winner, two tied candidates, a loser
C11_Witness ==
    /\ pc = "persist"
    /\ Len(ranked) = 4
    /\ elo[ranked[1].url] > elo[ranked[2].url]
    /\ elo[ranked[2].url] = elo[ranked[3].url]
    /\ elo[ranked[3].url] > elo[ranked[4].url]

\* C12: two runs of a tournament over the same candidates that get the
\* same sequence of judge completions end with the same sorted list and
\* the same labels.
C12_Deterministic == pc = "persist" => ranked = twin.ranked

\* C13: with four candidates C1 .. C4 and a judge that always prefers the
\* lower orig_rank, the sorted list after the 20 rounds is C1, C2, C3, C4.
C13_ExampleOrder ==
    (pc = "persist" /\ Len(ranked) = 4) =>
        \A i \in 1 .. 4 : ranked[i].url = i

\* clamp(NUM_LABELS - floor(log2(i + 1)), 0, NUM_LABELS)
ClampedLabel(i) ==
    LET l == NUM_LABELS - FloorLog2(i + 1)
    IN  IF l < 0 THEN 0 ELSE IF l > NUM_LABELS THEN NUM_LABELS ELSE l

\* C14: the candidate at position i (0-indexed) of a tournament's sorted
\* list, and the result at position i of the leechy engine's list, gets the
\* label clamp(NUM_LABELS - floor(log2(i + 1)), 0, NUM_LABELS).
C14_LabelMapping ==
    /\ pc = "persist" =>
          \A i \in 1 .. Len(ranked) : ranked[i].label = ClampedLabel(i - 1)
    /\ pc = "l_results" =>
          \A i \in 1 .. leechy.i - 1 :
              \A r \in Rows(CurQid, leechy.results[i]) :
                  r.annotation = {ClampedLabel(i - 1)}

\* the rowid of the stored query qid: the rows of queries are numbered in
\* the order of their creation
RowidOf(qid) == (CHOOSE q \in queries : q.qid = qid).rowid

\* C15: the snapshot a run takes of the unannotated queries lists them in
\* the order of their creation.
C15_CreationOrder ==
    (pc = "loop" /\ qi = 1) =>
        \A i, j \in 1 .. Len(unannotated_queries) :
            i < j => RowidOf(unannotated_queries[i].qid)
                        < RowidOf(unannotated_queries[j].qid)

\* every stored text has 3 to 100 characters, at least half of them
\* alphanumeric, and at least two words
C16_StoredValid ==
    \A q \in queries :
        /\ Len(q.query) >= 3
        /\ Len(q.query) <= 100
        /\ 2 * AlnumCount(q.query) >= Len(q.query)
        /\ WordCount(q.query) >= 2
\* a stored query row stays as it is
C16_QueriesKept == \A q \in queries : q \in queries'
\* C16: only a text of 3 to 100 characters, at least half of them
\* alphanumeric, with at least two words enters the store, and a stored
\* query is never mutated or deleted.
C16_QueryFiltering == []C16_StoredValid /\ [][C16_QueriesKept]_vars
\* a second run has started on a store that holds the accepted texts
C16_Witness ==
    /\ runs = 2
    /\ pc # "idle"
    /\ Cardinality(queries) = 2

\* C17: a run has the results of a query searched, to insert them, only
\* when no result is stored for that query.
C17_FetchOnce ==
    (pc = "l_results" /\ leechy.i = 1) => ~ has_results(results, CurQid)

\* C18: after insert_results every candidate whose (qid, url) was not
\* stored when its turn came has a row with its position in the list as
\* orig_rank, its payload and a null label; the rows stored before the
\* call are as they were, and no other row was added.
C18_InsertResults ==
    (last.op = "insert_results" /\ last.raised = "nothing") =>
        /\ \A r \in last.before : r \in results
        /\ \A i \in 1 .. Len(last.results) :
              LET c == last.results[i]
              IN  (/\ ~ \E r \in last.before : r.qid = last.qid /\ r.url = c.url
                   /\ \A k \in 1 .. i - 1 : last.results[k].url # c.url)
                  => \E r \in results :
                        /\ r.qid = last.qid /\ r.url = c.url
                        /\ r.orig_rank = i - 1
                        /\ r.webpage_json = c
                        /\ r.annotation = NULL
        /\ \A r \in results \ last.before :
              /\ r.qid = last.qid
              /\ \E i \in 1 .. Len(last.results) : last.results[i].url = r.url
\* a list whose first candidate was stored and labelled and whose second
\* candidate is new
C18_Witness ==
    /\ last.op = "insert_results"
    /\ last.raised = "nothing"
    /\ Len(last.results) = 2
    /\ \E r \in last.before :
          r.qid = last.qid /\ r.url = last.results[1].url /\ r.annotation # NULL
    /\ \E r \in results \ last.before : r.url = last.results[2].url /\ r.orig_rank = 1

\* C19: get_unannotated_results(qid) returns each stored result of qid with
\* a null label once, no other row, in ascending order of orig_rank.
C19_UnannotatedResults ==
    last.op = "get_unannotated_results" =>
        /\ Range(last.returned) =
              {[url |-> r.url, orig_rank |-> r.orig_rank, webpage_json |-> r.webpage_json] :
                  r \in {x \in results : x.qid = last.qid /\ x.annotation = NULL}}
        /\ \A i, j \in 1 .. Len(last.returned) :
              i < j => /\ last.returned[i] # last.returned[j]
                       /\ last.returned[i].orig_rank <= last.returned[j].orig_rank
\* one row is returned while the query also holds a labelled result
C19_Witness ==
    /\ last.op = "get_unannotated_results"
    /\ Len(last.returned) = 1
    /\ \E r \in results : r.qid = last.qid /\ r.annotation # NULL

\* C20: a call of insert_results that is cut short leaves either every row
\* of the call stored or none.
C20_AllOrNothing ==
    (last.op = "insert_results" /\ last.raised = "killed") =>
        \/ results = last.before
        \/ results = insert_results(last.before, last.qid, last.results)

\* the webpages of seq whose snippet can be normalised, in their order
RECURSIVE Normalisable(_)
Normalisable(seq) ==
    IF seq = <<>> THEN <<>>
    ELSE IF Head(seq).snippet = "fragments"
         THEN <<Head(seq)>> \o Normalisable(Tail(seq))
         ELSE Normalisable(Tail(seq))

\* C21: the fetch raises no error, returns the results of the webpages
\* whose snippet is present and can be normalised, in their order, and no
\* result of another webpage is stored.
C21_DropsBadSnippets ==
    last.op = "get_search_results" =>
        /\ last.raised = "nothing"
        /\ [k \in 1 .. Len(last.returned) |-> last.returned[k].url]
              = [k \in 1 .. Len(Normalisable(last.webpages)) |->
                    Normalisable(last.webpages)[k].url]
        /\ \A r \in results : r.webpage_json.snippet = "text"

\* last holds the latest round of the tournament in progress
RoundRecorded == last.op = "round" /\ pc \in {"rounds", "persist"}

\* C22: a round whose completion carries no marker leaves every rating as
\* it was, and the tournament still ends after ELO_ROUNDS_MULT x N rounds
\* (one judge call each), whatever the completions were.
C22_NoDecisionRound ==
    /\ (RoundRecorded /\ last.output = {}) => elo = last.before
    /\ pc = "rounds" => round <= ELO_ROUNDS_MULT * Len(unnanotated_results)
    /\ pc = "persist" => round = ELO_ROUNDS_MULT * Len(unnanotated_results)
\* a tournament is complete whose last round had no decision while earlier
\* rounds had one
C22_Witness ==
    /\ pc = "persist"
    /\ last.op = "round"
    /\ last.output = {}
    /\ \E u \in DOMAIN elo : elo[u] # Baseline

\* C23: the two candidates of a round are results of the query with
\* different urls.
C23_DistinctPair ==
    RoundRecorded =>
        /\ last.url_a # last.url_b
        /\ \A u \in {last.url_a, last.url_b} :
              \E r \in results : r.qid = EloQuery.qid /\ r.url = u
\* a candidate of one round is drawn again in the next round, against
\* another candidate
C23_Witness ==
    /\ RoundRecorded
    /\ Len(unnanotated_results) = 3
    /\ Cardinality(last.prev \cap {last.url_a, last.url_b}) = 1

\* the winner and the loser of the recorded round
WinnerOf(l) == IF get_best(l.output) = {1} THEN l.url_a ELSE l.url_b
LoserOf(l) == IF get_best(l.output) = {1} THEN l.url_b ELSE l.url_a

\* C24: every rating is the baseline 200 before the first round; a round
\* with a decision raises the winner's rating, lowers the loser's and keeps
\* the others; between two candidates at the baseline it gives 216 and 184,
\* and from 216 against 184 the winner gains less than 16.
C24_SequentialElo ==
    /\ (pc = "rounds" /\ last.op # "round") =>
          \A u \in DOMAIN elo : elo[u] = 200 * UNIT
    /\ (RoundRecorded /\ get_best(last.output) # None) =>
          LET w == WinnerOf(last)
              l == LoserOf(last)
          IN  /\ elo[w] > last.before[w]
              /\ elo[l] < last.before[l]
              /\ \A u \in DOMAIN elo \ {w, l} : elo[u] = last.before[u]
              /\ (last.before[w] = 200 * UNIT /\ last.before[l] = 200 * UNIT) =>
                    (elo[w] = 216 * UNIT /\ elo[l] = 184 * UNIT)
              /\ (last.before[w] = 216 * UNIT /\ last.before[l] = 184 * UNIT) =>
                    elo[w] - last.before[w] < 16 * UNIT
\* the winner of the first decided round wins again over the same loser
C24_Witness ==
    /\ RoundRecorded
    /\ get_best(last.output) # None
    /\ last.before[WinnerOf(last)] = 216 * UNIT
    /\ last.before[LoserOf(last)] = 184 * UNIT
    /\ elo[WinnerOf(last)] > 216 * UNIT

\* C25: a completion with the A marker credits the candidate of slot A, a
\* completion with the B marker credits the candidate of slot B, and any
\* other completion changes no rating.
C25_MarkerParsing ==
    RoundRecorded =>
        /\ "Best: RESULT_A" \in last.output =>
              elo = elo_update(last.url_a, last.url_b, last.before)
        /\ "Best: RESULT_B" \in last.output =>
              elo = elo_update(last.url_b, last.url_a, last.before)
        /\ last.output = {} => elo = last.before

\* C26: once a run has gone through its whole snapshot (every collaborator
\* answered), every stored query with at least two results is fully
\* annotated, interrupted earlier runs included: the run has picked up the
\* partially labelled queries again.
C26_Progress ==
    (pc = "idle" /\ status = "done") =>
        \A q \in queries :
            Cardinality({r \in results : r.qid = q.qid}) >= 2 =>
                \A r \in results : r.qid = q.qid => r.annotation # NULL

\* C27: whatever the normal distribution draws, the delay between two
\* queries is a sleep of a non-negative length that returns, and the run
\* goes on.
C27_DelayFloor ==
    last.op = "sleep" =>
        /\ last.secs >= 0
        /\ last.raised = "nothing"
        /\ status # "ValueError"

\* the query whose tournament process w is in, if any
InTournamentOf(w) ==
    IF workers[w].pc \in {"rounds", "persist"}
    THEN {workers[w].unannotated_queries[workers[w].qi].qid}
    ELSE {}

\* C28: two processes are never in the tournament of the same query at the
\* same time, and when every process has ended the labels stored for a
\* query are those of one of the tournaments run for it.
C28_ExclusiveTournament ==
    /\ \A v, w \in DOMAIN workers :
          v # w => InTournamentOf(v) \cap InTournamentOf(w) = {}
    /\ (\A w \in DOMAIN workers : workers[w].pc \in {"done", "ValueError"}) =>
          \A q \in queries :
              (\E r \in results : r.qid = q.qid /\ r.annotation # NULL) =>
                  \E w \in DOMAIN workers : \E t \in workers[w].tournaments :
                      /\ t[1] = q.qid
                      /\ \A i \in 1 .. Len(t[2]) :
                            \E r \in Rows(q.qid, t[2][i].url) :
                                r.annotation = {t[2][i].label}

\* the stored results of query qid with the label NUM_LABELS
TopGraded(qid) == {r \in results : r.qid = qid /\ r.annotation = {NUM_LABELS}}

\* C29: whatever runs of the two scripts the store has seen, completed or
\* interrupted, no query has two results with the label NUM_LABELS, and
\* when a tournament over at least two candidates has persisted its last
\* label the query has exactly one.
C29_UniqueTopGrade ==
    /\ \A q \in queries : Cardinality(TopGraded(q.qid)) <= 1
    /\ (pc = "persist" /\ pi > Len(ranked) /\ Len(ranked) >= 2) =>
          Cardinality(TopGraded(CurQid)) = 1
\* a second run has completed a tournament in a store where a query that an
\* earlier run labelled holds its top grade
C29_Witness ==
    /\ pc = "persist"
    /\ pi > Len(ranked)
    /\ Len(ranked) >= 2
    /\ runs = 2
    /\ \E q \in queries : q.qid # CurQid /\ Cardinality(TopGraded(q.qid)) = 1

\* C30: no two stored results of a query have the same orig_rank.
C30_UniqueOrigRank ==
    \A r1, r2 \in results :
        (r1.qid = r2.qid /\ r1.orig_rank = r2.orig_rank) => r1 = r2

====
